---------------------------- MODULE Spec2Model ----------------------------
(***************************************************************************)
(* A model of paperback (mook/paperback): the chunk header protocol        *)
(* (src/src/header.rs), the encoder (src/src/create/mod.rs with the shard  *)
(* arithmetic of src/src/create/layout.rs) and the reconstructor           *)
(* (src/src/restore.rs).                                                   *)
(*                                                                         *)
(* Byte buffers are sequences of integers 0..255.  Option<T> is a sequence *)
(* of length 0 (None) or 1 (Some).                                         *)
(***************************************************************************)
EXTENDS Integers, Sequences, FiniteSets, TLC

VARIABLES
    pc,                  \* position of the running command
    data_bytes,          \* create: the bytes of the input file
    commit,              \* create: args.override_commit (the build tag)
    commit_r,            \* restore: args.override_commit
    args,                \* create: row_count, error_correction and the page, in modules
    best,                \* create: the winning configuration of the layout search
    recovery_factor,     \* create: args.recovery_factor
    layout,              \* create: Option<layout::Options>
    rendered,            \* create: the recovery shards whose render worker returned, in that order
    printed,             \* create: the chunks rendered on the pages
    images,              \* restore: Option<what each of args.input_paths scans to>
    finished,            \* restore: the input paths whose decode worker returned, in that order
    chunks,              \* restore: the chunks iterated so far, in order
    previous_meta,       \* restore: Option<MetaHeader>
    previous_identifier, \* restore: Option<Identifier>
    payloads,            \* restore: Vec<(u16, Vec<u8>)>
    result,              \* outcome of the command ("" while running)
    decoder_configured,  \* restore: ReedSolomonDecoder::new has been called
    out_file,            \* restore: Option<content of the destination file>
    bytes_written,       \* restore: write_output's running count
    force,               \* restore: args.force
    oracle,              \* the byte strings hashed so far (ideal SHA-512)
    h_in,                \* header protocol: the header handed to write_to
    h_buf,               \* header protocol: the bytes written
    h_out                \* header protocol: what read_from returned

vars == <<pc, data_bytes, commit, commit_r, args, best, recovery_factor, layout,
          rendered, printed, images, finished, chunks, previous_meta, previous_identifier, payloads,
          result, decoder_configured, out_file, bytes_written, force,
          oracle, h_in, h_buf, h_out>>

createArgs == <<data_bytes, commit, commit_r, args, best, recovery_factor, force>>
createVars == <<createArgs, rendered>>
restoreVars == <<images, finished, chunks, previous_meta, previous_identifier, payloads,
                 decoder_configured, out_file, bytes_written>>
headerVars == <<h_in, h_buf, h_out>>

---------------------------------------------------------------------------
(* Program constants *)

\* header.rs: pub const IDENTIFIER_LENGTH: usize = 4
IDENTIFIER_LENGTH == 4
\* sha512::DIGEST_LENGTH_BYTES
DIGEST_LENGTH_BYTES == 64
\* u16::MAX, the index that marks a metadata block
U16_MAX == 65535
\* size_of::<u64>(), the length of the size trailer
SIZE_OF_U64 == 8
\* size_of::<u16>()
SIZE_OF_U16 == 2
\* the block granularity of the erasure coder (prev_multiple_of(&64))
BLOCK_BYTES == 64
\* A u64 the model does not represent exactly: some value >= 2^31 - 1
U64_HUGE == 65536 * 32767 + 65535

PayloadHeader_LENGTH == SIZE_OF_U16 + IDENTIFIER_LENGTH
MetaHeader_LENGTH == DIGEST_LENGTH_BYTES + SIZE_OF_U16 + SIZE_OF_U16 + SIZE_OF_U64

---------------------------------------------------------------------------
(* Byte helpers *)

Min(a, b) == IF a < b THEN a ELSE b

\* s[from..to] (1-based, inclusive); empty when to < from
Slice(s, from, to) == SubSeq(s, from, to)

Take(s, n) == Slice(s, 1, n)
Drop(s, n) == Slice(s, n + 1, Len(s))

Zeros(n) == [i \in 1..n |-> 0]

StartsWith(s, prefix) ==
    /\ Len(prefix) <= Len(s)
    /\ \A i \in 1..Len(prefix) : s[i] = prefix[i]

\* WriteBytesExt::write_uN::<LittleEndian>: the w low bytes of n, low byte first
RECURSIVE WriteLE(_, _)
WriteLE(n, w) == IF w = 0 THEN <<>> ELSE <<n % 256>> \o WriteLE(n \div 256, w - 1)

\* ReadBytesExt::read_uN::<LittleEndian> of the whole buffer b.  Exact below
\* 2^31; any larger value is reported as U64_HUGE.
RECURSIVE ReadLEExact(_)
ReadLEExact(b) == IF b = <<>> THEN 0 ELSE b[1] + 256 * ReadLEExact(Tail(b))

ReadLE(b) ==
    IF \/ \E i \in 5..Len(b) : b[i] # 0
       \/ (Len(b) >= 4 /\ b[4] >= 128)
    THEN U64_HUGE
    ELSE ReadLEExact(Take(b, Min(Len(b), 4)))

---------------------------------------------------------------------------
(* header.rs: the chunk header protocol *)

MetaHeader(identifier, hash, original_count, recovery_count, shard_bytes) ==
    [identifier |-> identifier, hash |-> hash,
     original_count |-> original_count, recovery_count |-> recovery_count,
     shard_bytes |-> shard_bytes]

PayloadHeader(index, identifier) == [index |-> index, identifier |-> identifier]

HeaderMeta(m) == [kind |-> "Meta", meta |-> m]
HeaderPayload(p) == [kind |-> "Payload", payload |-> p]

\* write_to with the two counts of a Meta header in the other order
write_to_counts_swapped(h) ==
    IF h.kind = "Meta"
    THEN WriteLE(U16_MAX, SIZE_OF_U16)
         \o h.meta.identifier
         \o h.meta.hash
         \o WriteLE(h.meta.recovery_count, SIZE_OF_U16)
         \o WriteLE(h.meta.original_count, SIZE_OF_U16)
         \o WriteLE(h.meta.shard_bytes, SIZE_OF_U64)
    ELSE WriteLE(h.payload.index, SIZE_OF_U16) \o h.payload.identifier

\* Header::write_to
write_to(h) ==
    IF h.kind = "Meta"
    THEN WriteLE(U16_MAX, SIZE_OF_U16)
         \o h.meta.identifier
         \o h.meta.hash
         \o WriteLE(h.meta.original_count, SIZE_OF_U16)
         \o WriteLE(h.meta.recovery_count, SIZE_OF_U16)
         \o WriteLE(h.meta.shard_bytes, SIZE_OF_U64)
    ELSE WriteLE(h.payload.index, SIZE_OF_U16) \o h.payload.identifier

\* Read::read_exact / read_uN on a reader holding r: Err on a short buffer,
\* else the n bytes and the advanced reader.
\* a read that returns what is there when the reader runs short
read_exact_partial(r, n) ==
    [ok |-> TRUE, val |-> Take(r, Min(n, Len(r))), rest |-> Drop(r, Min(n, Len(r)))]

\* Read::read_exact: n bytes and the reader after them, or the error
read_exact(r, n) ==
    IF Len(r) < n
    THEN [ok |-> FALSE, val |-> <<>>, rest |-> r]
    ELSE [ok |-> TRUE, val |-> Take(r, n), rest |-> Drop(r, n)]

ReadErr(r) == [ok |-> FALSE, header |-> <<>>, rest |-> r]

\* Header::read_from: Result<Header> and the reader left behind
read_from(reader) ==
    LET ix == read_exact(reader, SIZE_OF_U16) IN
    IF ~ix.ok THEN ReadErr(reader) ELSE
    LET index == ReadLE(ix.val) IN
    IF index = U16_MAX
    THEN LET id == read_exact(ix.rest, IDENTIFIER_LENGTH) IN
         IF ~id.ok THEN ReadErr(reader) ELSE
         LET hs == read_exact(id.rest, DIGEST_LENGTH_BYTES) IN
         IF ~hs.ok THEN ReadErr(reader) ELSE
         LET oc == read_exact(hs.rest, SIZE_OF_U16) IN
         IF ~oc.ok THEN ReadErr(reader) ELSE
         LET rc == read_exact(oc.rest, SIZE_OF_U16) IN
         IF ~rc.ok THEN ReadErr(reader) ELSE
         LET sb == read_exact(rc.rest, SIZE_OF_U64) IN
         IF ~sb.ok THEN ReadErr(reader) ELSE
         [ok |-> TRUE,
          header |-> <<HeaderMeta(MetaHeader(id.val, hs.val, ReadLE(oc.val),
                                             ReadLE(rc.val), ReadLE(sb.val)))>>,
          rest |-> sb.rest]
    ELSE LET id == read_exact(ix.rest, IDENTIFIER_LENGTH) IN
         IF ~id.ok THEN ReadErr(reader) ELSE
         [ok |-> TRUE,
          header |-> <<HeaderPayload(PayloadHeader(index, id.val))>>,
          rest |-> id.rest]

---------------------------------------------------------------------------
(* SHA2_512: an ideal hash.  The digest of a byte string is fixed by the    *)
(* order in which distinct strings are first hashed, so two strings have    *)
(* the same digest exactly when they are equal.                             *)

HashIndex(o, s) ==
    IF \E i \in 1..Len(o) : o[i] = s
    THEN CHOOSE i \in 1..Len(o) : o[i] = s
    ELSE Len(o) + 1

Hashed(o, s) == IF HashIndex(o, s) <= Len(o) THEN o ELSE Append(o, s)

\* The 64 bytes of the digest numbered n.  Digests differ from one another
\* past their first IDENTIFIER_LENGTH bytes; two digests may share those.
DigestBytes(n) ==
    [j \in 1..DIGEST_LENGTH_BYTES |->
        IF j <= IDENTIFIER_LENGTH THEN (((n + 1) \div 2) * j) % 256 ELSE (n * j) % 256]

\* the digest of the data alone: a string hashed before counts as the same
\* when it is the data followed by any tag of this length
SHA2_512_without_tag(o, data, tag) ==
    LET same(i) == StartsWith(o[i], data) /\ Len(o[i]) = Len(data) + Len(tag) IN
    DigestBytes(IF \E i \in 1..Len(o) : same(i)
                THEN CHOOSE i \in 1..Len(o) : same(i)
                ELSE Len(o) + 1)

\* hasher.update(data); hasher.update(commit); hasher.digest()
SHA2_512(o, data, tag) == DigestBytes(HashIndex(o, data \o tag))

---------------------------------------------------------------------------
(* reed_solomon_simd: the erasure coder.  The crate's contract (any         *)
(* original_count of the recovery shards restore the original shards) is    *)
(* met by a polynomial code over the prime field GF_P, byte position by     *)
(* byte position: original shard m is the value at point m, recovery shard  *)
(* i the value at point original_count + i, of the one polynomial of degree *)
(* below original_count through the original shards.                        *)

GF_P == 251
\* GF_ORDER of the crate: the limit on shard counts
GF_ORDER == 65536

Mod(a) == ((a % GF_P) + GF_P) % GF_P
\* the multiplicative inverses of GF_P
InvTable == [a \in 1..(GF_P - 1) |-> CHOOSE b \in 1..(GF_P - 1) : (a * b) % GF_P = 1]
Inv(a) == InvTable[a]

\* Lagrange basis of the point x among the points X, evaluated at t
RECURSIVE Basis(_, _, _)
Basis(X, x, t) ==
    IF X \ {x} = {} THEN 1
    ELSE LET y == CHOOSE z \in X \ {x} : TRUE IN
         (Mod(t - y) * Inv(Mod(x - y)) * Basis(X \ {y}, x, t)) % GF_P

RECURSIVE SumOver(_, _, _)
SumOver(X, coef, val) ==
    IF X = {} THEN 0
    ELSE LET x == CHOOSE z \in X : TRUE IN
         (coef[x] * val[x] + SumOver(X \ {x}, coef, val)) % GF_P

\* the shard at point t given the shards at[x] at the points X
Interpolate(X, at, t, shard_bytes) ==
    LET coef == [x \in X |-> Basis(X, x, t)] IN
    [j \in 1..shard_bytes |-> SumOver(X, coef, [x \in X |-> at[x][j]])]

RECURSIVE NextPowerOfTwo(_)
NextPowerOfTwo(n) == IF n <= 1 THEN 1 ELSE 2 * NextPowerOfTwo((n + 1) \div 2)

\* ReedSolomonEncoder::supports / ReedSolomonDecoder::supports
Supports(original_count, recovery_count) ==
    /\ original_count > 0 /\ recovery_count > 0
    /\ original_count < GF_ORDER /\ recovery_count < GF_ORDER
    /\ \/ NextPowerOfTwo(recovery_count) + original_count <= GF_ORDER
       \/ NextPowerOfTwo(original_count) + recovery_count <= GF_ORDER

\* ReedSolomonEncoder::new / ReedSolomonDecoder::new : "" or the error
RsNew(original_count, recovery_count, shard_bytes) ==
    IF ~Supports(original_count, recovery_count) THEN "unsupported shard count"
    ELSE IF shard_bytes = 0 \/ shard_bytes % BLOCK_BYTES # 0 THEN "invalid shard size"
    ELSE ""

\* ReedSolomonEncoder::encode: recovery_iter(), recovery_count shards
RsEncode(originals, recovery_count, shard_bytes) ==
    LET k == Len(originals)
        X == 0..(k - 1)
        at == [x \in X |-> originals[x + 1]]
    IN [i \in 1..recovery_count |-> Interpolate(X, at, k + i - 1, shard_bytes)]

RECURSIVE RsAddAll_first_wins(_, _, _, _, _)
RECURSIVE RsAddAll(_, _, _, _, _)

\* add_recovery_shard that drops a shard whose index it already holds
RsAddAll_first_wins(ps, i, seen, recovery_count, shard_bytes) ==
    IF i > Len(ps) THEN ""
    ELSE IF ps[i][1] >= recovery_count THEN "invalid recovery shard index"
    ELSE IF ps[i][1] \notin seen /\ Len(ps[i][2]) # shard_bytes THEN "different shard size"
    ELSE RsAddAll_first_wins(ps, i + 1, seen \cup {ps[i][1]}, recovery_count, shard_bytes)

\* ReedSolomonDecoder::add_recovery_shard for each entry of payloads in turn,
\* from entry number i with the indexes `seen` already added: "" or the
\* first error.
RsAddAll(ps, i, seen, recovery_count, shard_bytes) ==
    IF i > Len(ps) THEN ""
    ELSE IF ps[i][1] >= recovery_count THEN "invalid recovery shard index"
    ELSE IF ps[i][1] \in seen THEN "duplicate recovery shard index"
    ELSE IF Len(ps[i][2]) # shard_bytes THEN "different shard size"
    ELSE RsAddAll(ps, i + 1, seen \cup {ps[i][1]}, recovery_count, shard_bytes)

\* The recovery shards the decoder works from: a function of the set of
\* shards received, here the original_count lowest indexes.
RECURSIVE Lowest(_, _)
Lowest(S, n) ==
    IF n = 0 \/ S = {} THEN {}
    ELSE LET m == CHOOSE x \in S : \A y \in S : x <= y IN {m} \cup Lowest(S \ {m}, n - 1)

\* ReedSolomonDecoder::decode + restored_original_iter(): the original
\* shards in index order, from the received recovery shards (index -> bytes)
RsDecode(received, original_count, shard_bytes) ==
    LET used == Lowest(DOMAIN received, original_count)
        X == {original_count + i : i \in used}
        at == [x \in X |-> received[x - original_count]]
    IN [m \in 1..original_count |-> Interpolate(X, at, m - 1, shard_bytes)]

---------------------------------------------------------------------------
(* create/layout.rs: the shard arithmetic of compute *)

DivCeil(a, b) == (a + b - 1) \div b
\* the next multiple strictly above a
NextMultipleOf_above(a, b) == (a \div b + 1) * b

NextMultipleOf(a, b) == DivCeil(a, b) * b
PrevMultipleOf(a, b) == (a \div b) * b

Pages(c) == [kind |-> "Pages", n |-> c]
Percentage(p) == [kind |-> "Percentage", n |-> p]

\* the pages added by args.recovery_factor
ExtraPages(factor, data_shard_count, shards_per_page) ==
    IF factor.kind = "Pages" THEN factor.n
    ELSE DivCeil((factor.n * data_shard_count) \div 100, shards_per_page)

\* qrcode::EcLevel, in its derived order
EcLevel_L == 0
EcLevel_M == 1
EcLevel_Q == 2
EcLevel_H == 3

\* for version_value in 1..=40
QrVersions == 40

\* Version::Normal(v).width(): the modules along one side of the code
VersionWidth(v) == 4 * v + 17

\* The data codewords of a QR code by version and error correction level
\* (L, M, Q, H), for the versions 1..10.
DataCodewords ==
    << <<19, 16, 13, 9>>,     <<34, 28, 22, 16>>,    <<55, 44, 34, 26>>,
       <<80, 64, 48, 36>>,    <<108, 86, 62, 46>>,   <<136, 108, 76, 60>>,
       <<156, 124, 88, 66>>,  <<194, 154, 110, 86>>, <<232, 182, 132, 100>>,
       <<274, 216, 154, 122>> >>

\* qrcode::bits::Bits::new(version).max_len(ec_level), in bits
max_len(v, ec_level) == 8 * DataCodewords[v][ec_level + 1]

\* CreateArgs as the search reads it: the shorter side of the page inside
\* the margins is avail_modules times args.module_length
CreateArgs(row_count, error_correction, avail_modules) ==
    [row_count |-> row_count, error_correction |-> error_correction,
     avail_modules |-> avail_modules]

\* ((avail_min - quiet_zone_width) / width_per_shard).floor() as usize
ShardsPerRow(a, v) ==
    IF a.avail_modules < 4 THEN 0
    ELSE (a.avail_modules - 4) \div (VersionWidth(v) + 4)

\* the bits of the mode indicator and of the character count indicator
ModeIndicatorLength == 4
CharCountLength(v) == IF v <= 9 THEN 8 ELSE 16

\* the bytes of a code taken whole, the Payload header not set aside
DataBytesPerShard_whole_code(v, ec_level) ==
    (max_len(v, ec_level) - ModeIndicatorLength - CharCountLength(v)) \div 8

\* raw_byte_count - PayloadHeader::LENGTH
DataBytesPerShard(v, ec_level) ==
    (max_len(v, ec_level) - ModeIndicatorLength - CharCountLength(v)) \div 8
        - PayloadHeader_LENGTH

\* data_bytes_per_shard.prev_multiple_of(&64) * shards_per_row * shards_per_row
DataBytesPerPage(a, v, ec_level) ==
    PrevMultipleOf(DataBytesPerShard(v, ec_level), BLOCK_BYTES)
        * ShardsPerRow(a, v) * ShardsPerRow(a, v)

\* the first configuration that holds anything is kept
Better_first_found(data_bytes_per_page, best_data_bytes_per_page) ==
    data_bytes_per_page > 0 /\ best_data_bytes_per_page = 0

\* a configuration that holds as much replaces the tracked one
Better_or_equal(data_bytes_per_page, best_data_bytes_per_page) ==
    data_bytes_per_page > 0 /\ data_bytes_per_page >= best_data_bytes_per_page

\* data_bytes_per_page > best_data_bytes_per_page
Better(data_bytes_per_page, best_data_bytes_per_page) ==
    data_bytes_per_page > best_data_bytes_per_page

\* the best_* variables before the search
NoBest ==
    [data_bytes_per_page |-> 0, version |-> 1, level |-> EcLevel_L,
     shards_per_row |-> 0, data_bytes_per_shard |-> 0]

\* the body of the inner loop for one level: the best_* variables after it
TryLevel(a, v, ec_level, b) ==
    IF ec_level < a.error_correction THEN b
    ELSE IF Better(DataBytesPerPage(a, v, ec_level), b.data_bytes_per_page)
    THEN [data_bytes_per_page |-> DataBytesPerPage(a, v, ec_level),
          version |-> v, level |-> ec_level,
          shards_per_row |-> ShardsPerRow(a, v),
          data_bytes_per_shard |-> DataBytesPerShard(v, ec_level)]
    ELSE b

\* the body of the outer loop for one version: H, Q, M, L in turn
TryVersion(a, v, b) ==
    IF ShardsPerRow(a, v) < a.row_count THEN b
    ELSE TryLevel(a, v, EcLevel_L,
            TryLevel(a, v, EcLevel_M,
                TryLevel(a, v, EcLevel_Q,
                    TryLevel(a, v, EcLevel_H, b))))

\* the outer loop over the versions lo..hi in ascending order, entered with
\* the best_* variables b: the best_* variables after it
RECURSIVE Search(_, _, _, _)
Search(a, lo, hi, b) ==
    IF lo > hi THEN b
    ELSE IF lo = hi THEN TryVersion(a, lo, b)
    ELSE LET mid == (lo + hi) \div 2
             first == Search(a, lo, mid, b)
         IN \* (the test has TLC evaluate `first` here, not at the end of a
            \* chain of 40 unevaluated updates)
            IF first = b THEN Search(a, mid + 1, hi, b)
            ELSE Search(a, mid + 1, hi, first)

\* layout::compute from the end of the search on: Option<Options>, None
\* for the error "Could not find QR code configuration ..."
compute(b, factor, data_size, identifier, data_hash) ==
    IF b.data_bytes_per_shard < BLOCK_BYTES + PayloadHeader_LENGTH THEN <<>>
    ELSE
    LET data_bytes_per_shard == PrevMultipleOf(b.data_bytes_per_shard, BLOCK_BYTES)
        shards_per_page == b.shards_per_row * b.shards_per_row
        buffer_size == NextMultipleOf(SIZE_OF_U64 + data_size, data_bytes_per_shard)
        data_shard_count == DivCeil(buffer_size, data_bytes_per_shard)
        data_page_count == DivCeil(data_shard_count, shards_per_page)
        recovery_page_count ==
            data_page_count + ExtraPages(factor, data_shard_count, shards_per_page)
    IN <<[identifier |-> identifier,
          hash |-> data_hash,
          shards_per_row |-> b.shards_per_row,
          data_bytes_per_shard |-> data_bytes_per_shard,
          data_shard_count |-> data_shard_count,
          recovery_shard_count |-> recovery_page_count * shards_per_page,
          data_page_count |-> data_page_count,
          recovery_page_count |-> recovery_page_count]>>

---------------------------------------------------------------------------
(* create/mod.rs, create/render.rs: the encoder *)

\* The Document Identifier handed to layout::compute: the leading bytes of
\* the Document Hash.
DocumentIdentifier(hash) == Take(hash, IDENTIFIER_LENGTH)

\* PaddedBuffer with the padded size, not the file size, in the trailer
PaddedBuffer_padded_size(data, data_bytes_per_shard) ==
    LET buffer_size == NextMultipleOf(SIZE_OF_U64 + Len(data), data_bytes_per_shard)
        resized == data \o Zeros(buffer_size - Len(data))
    IN Take(resized, buffer_size - SIZE_OF_U64) \o WriteLE(buffer_size, SIZE_OF_U64)

\* PaddedBuffer with the trailer straight after the file's bytes
PaddedBuffer_trailer_after_data(data, data_bytes_per_shard) ==
    LET buffer_size == NextMultipleOf(SIZE_OF_U64 + Len(data), data_bytes_per_shard)
    IN data \o WriteLE(Len(data), SIZE_OF_U64)
            \o Zeros(buffer_size - Len(data) - SIZE_OF_U64)

\* data_bytes.resize(buffer_size, 0) and the size trailer written over the
\* last 8 bytes
PaddedBuffer(data, data_bytes_per_shard) ==
    LET buffer_size == NextMultipleOf(SIZE_OF_U64 + Len(data), data_bytes_per_shard)
        resized == data \o Zeros(buffer_size - Len(data))
    IN Take(resized, buffer_size - SIZE_OF_U64) \o WriteLE(Len(data), SIZE_OF_U64)

\* the slices handed to add_original_shard
OriginalShards(buffer, l) ==
    [m \in 1..l.data_shard_count |->
        Slice(buffer, (m - 1) * l.data_bytes_per_shard + 1, m * l.data_bytes_per_shard)]

\* PayloadChunk with the trailing bytes of the hash as the identifier
PayloadChunk_identifier_from_tail(l, i, shard) ==
    write_to(HeaderPayload(PayloadHeader(i,
        SubSeq(l.hash, Len(l.hash) - IDENTIFIER_LENGTH + 1, Len(l.hash))))) \o shard

\* the buffer of recovery shard number i (from 0): Payload header, shard
PayloadChunk(l, i, shard) ==
    write_to(HeaderPayload(PayloadHeader(i, Take(l.hash, IDENTIFIER_LENGTH)))) \o shard

\* the metadata code counting pages where the coder counts shards
MetaChunk_page_counts(l) ==
    write_to(HeaderMeta(MetaHeader(l.identifier, l.hash, l.data_page_count,
                                   l.recovery_page_count, l.data_bytes_per_shard)))

\* render_banner: the buffer of the metadata QR code
MetaChunk(l) ==
    write_to(HeaderMeta(MetaHeader(l.identifier, l.hash, l.data_shard_count,
                                   l.recovery_shard_count, l.data_bytes_per_shard)))

NothingPrinted == [meta |-> <<>>, payloads |-> <<>>]

\* create(args): the whole command
Create ==
    /\ pc = "create"
    /\ LET digest == SHA2_512(oracle, data_bytes, commit)
           lay == compute(best, recovery_factor, Len(data_bytes),
                          DocumentIdentifier(digest), digest)
       IN
       /\ oracle' = Hashed(oracle, data_bytes \o commit)
       /\ IF lay = <<>>
          THEN /\ result' = "Could not find QR code configuration"
               /\ layout' = <<>>
               /\ printed' = NothingPrinted
               /\ pc' = "done"
          ELSE
          LET l == lay[1]
              rs == RsNew(l.data_shard_count, l.recovery_shard_count,
                          l.data_bytes_per_shard)
              buffer == PaddedBuffer(data_bytes, l.data_bytes_per_shard)
              recovery == RsEncode(OriginalShards(buffer, l), l.recovery_shard_count,
                                   l.data_bytes_per_shard)
          IN
          /\ layout' = lay
          /\ IF rs # ""
             THEN /\ result' = rs
                  /\ printed' = NothingPrinted
                  /\ pc' = "done"
             ELSE IF l.data_shard_count > U16_MAX \/ l.recovery_shard_count > U16_MAX
             THEN /\ result' = "cannot render chunks"
                  /\ printed' = NothingPrinted
                  /\ pc' = "done"
             ELSE /\ result' = ""
                  /\ printed' =
                        [meta |-> <<MetaChunk(l)>>,
                         payloads |-> [i \in 1..l.recovery_shard_count |->
                                          PayloadChunk(l, i - 1, recovery[i])]]
                  /\ pc' = "scan"
    /\ UNCHANGED <<createVars, restoreVars, headerVars>>

---------------------------------------------------------------------------
(* restore.rs: the reconstructor *)

\* Meta headers compared by their hash alone
MetaNe_hash_only(meta, m) == meta.hash # m.hash

\* meta.ne(&m): MetaHeader derives PartialEq over all its fields
MetaNe(meta, m) ==
    \/ meta.identifier # m.identifier
    \/ meta.hash # m.hash
    \/ meta.original_count # m.original_count
    \/ meta.recovery_count # m.recovery_count
    \/ meta.shard_bytes # m.shard_bytes

\* m.hash.starts_with(id) for a Meta header met after a Payload
MetaStartsWithIdentifier(m, id) == StartsWith(m.hash, id)

\* a Payload met after the Meta header compared with its identifier field
PayloadMatchesMeta_identifier_field(m, p) == m.identifier = p.identifier

\* m.hash.starts_with(&p.identifier) for a Payload met after the Meta header
PayloadMatchesMeta(m, p) == StartsWith(m.hash, p.identifier)

\* a Payload met after another Payload taken under any identifier
IdentifierNe_never(id, p) == FALSE

\* id.ne(&p.identifier) for a Payload met after another Payload
IdentifierNe(id, p) == id # p.identifier

LoopState(err, pm, pid, ps) ==
    [err |-> err, previous_meta |-> pm, previous_identifier |-> pid, payloads |-> ps]

\* One iteration of `for chunk in chunks.iter()`: the error raised, or the
\* accumulators after the chunk.
restore_chunk(pm, pid, ps, chunk) ==
    LET r == read_from(chunk) IN
    IF ~r.ok THEN LoopState("failed to fill whole buffer", pm, pid, ps) ELSE
    LET header == r.header[1] IN
    IF header.kind = "Meta"
    THEN LET m == header.meta IN
         IF pm # <<>>
         THEN IF MetaNe(pm[1], m)
              THEN LoopState("meta header mismatch", pm, pid, ps)
              ELSE LoopState("", pm, pid, ps)
         ELSE IF pid # <<>> /\ ~MetaStartsWithIdentifier(m, pid[1])
              THEN LoopState("meta does not match identifier", pm, pid, ps)
              ELSE LoopState("", <<m>>, pid, ps)
    ELSE LET p == header.payload
             pushed == Append(ps, <<p.index, r.rest>>)
         IN
         IF pm # <<>>
         THEN IF ~PayloadMatchesMeta(pm[1], p)
              THEN LoopState("payload does not match meta", pm, pid, ps)
              ELSE LoopState("", pm, pid, pushed)
         ELSE IF pid # <<>>
              THEN IF IdentifierNe(pid[1], p)
                   THEN LoopState("payload has incorrect identifier", pm, pid, ps)
                   ELSE LoopState("", pm, pid, pushed)
              ELSE LoopState("", pm, <<p.identifier>>, pushed)

\* `for chunk in decoded`: the bytes written and hashed, and bytes_written,
\* from chunk number i on
RECURSIVE WriteLoop(_, _, _, _, _)
WriteLoop(decoded, i, expected_size, written, content) ==
    IF i > Len(decoded) THEN [content |-> content, bytes_written |-> written]
    ELSE IF Len(decoded[i]) + written > expected_size
    THEN [content |-> content \o Take(decoded[i], expected_size - written),
          bytes_written |-> written]
    ELSE WriteLoop(decoded, i + 1, expected_size, written + Len(decoded[i]),
                   content \o decoded[i])

WriteResult(res, configured, file, written, o) ==
    [result |-> res, decoder_configured |-> configured, out_file |-> file,
     bytes_written |-> written, oracle |-> o]

\* decode with too few shards added: Error::NotEnoughShards
NotEnoughShards_off_by_one(received_count, original_count) ==
    received_count <= original_count

NotEnoughShards(received_count, original_count) ==
    received_count < original_count

\* the shards the decoder holds after every add_recovery_shard succeeded
Received(ps) ==
    [ix \in {ps[i][1] : i \in 1..Len(ps)} |->
        ps[CHOOSE i \in 1..Len(ps) : ps[i][1] = ix][2]]

\* the digest compared with the identifier bytes of the hash only
DigestNe_identifier_only(digest, meta) ==
    Take(digest, IDENTIFIER_LENGTH) # Take(meta.hash, IDENTIFIER_LENGTH)

\* digest.ne(&meta.hash)
DigestNe(digest, meta) == digest # meta.hash

\* an open that replaces whatever is at the destination
OpenRefused_never(file, frc) == FALSE

\* File::options().truncate(true).create_new(!force).write(true).open()
\* fails: the destination exists and create_new is set
OpenRefused(file, frc) == file # <<>> /\ ~frc

\* write_output(meta, payloads, force, output_path, commit) with the
\* destination holding `file` and the strings `o` hashed before
write_output(meta, ps, frc, file, tag, o) ==
    LET new == RsNew(meta.original_count, meta.recovery_count, meta.shard_bytes) IN
    IF new # "" THEN WriteResult(new, TRUE, file, 0, o) ELSE
    LET added == RsAddAll(ps, 1, {}, meta.recovery_count, meta.shard_bytes) IN
    IF added # "" THEN WriteResult(added, TRUE, file, 0, o) ELSE
    IF NotEnoughShards(Cardinality(DOMAIN Received(ps)), meta.original_count)
    THEN WriteResult("failed to decode original data", TRUE, file, 0, o) ELSE
    LET decoded == RsDecode(Received(ps), meta.original_count, meta.shard_bytes)
        last_chunk == decoded[Len(decoded)]
        expected_size == ReadLE(Drop(last_chunk, Len(last_chunk) - SIZE_OF_U64))
    IN
    IF OpenRefused(file, frc) THEN WriteResult("File exists", TRUE, file, 0, o) ELSE
    LET w == WriteLoop(decoded, 1, expected_size, 0, <<>>)
        digest == SHA2_512(o, w.content, tag)
        o2 == Hashed(o, w.content \o tag)
    IN
    IF DigestNe(digest, meta)
    THEN WriteResult("checksum mismatch", TRUE, <<w.content>>, w.bytes_written, o2)
    ELSE WriteResult("ok", TRUE, <<w.content>>, w.bytes_written, o2)

\* restore with a default Meta header standing in for a missing one
restore_finish_default_meta(pm, ps, frc, file, tag, o) ==
    write_output(IF pm = <<>>
                 THEN MetaHeader(Zeros(IDENTIFIER_LENGTH), Zeros(DIGEST_LENGTH_BYTES), 0, 0, 0)
                 ELSE pm[1],
                 ps, frc, file, tag, o)

\* restore after the loop: previous_meta.ok_or(..)?, then write_output
restore_finish(pm, ps, frc, file, tag, o) ==
    IF pm = <<>>
    THEN WriteResult("could not locate any metadata chunks", FALSE, file, 0, o)
    ELSE write_output(pm[1], ps, frc, file, tag, o)

---------------------------------------------------------------------------
(* Bounds and inputs *)

\* the chunks restore is given, at most
MaxChunks == 3
\* the recovery pages asked for beyond the data pages, at most
MaxPages == 1
\* the input files are filled with the byte values fill, fill + 1, ...
FileFills == {1}

\* a file of n bytes
FileBytes(n, fill) == [i \in 1..n |-> (fill + i - 1) % GF_P]

\* build tags
Commits == {<<118, 49>>, <<118, 50>>}

\* file lengths: empty, and one byte more than fits one shard with its trailer
FileLengths == {0, BLOCK_BYTES - SIZE_OF_U64 + 1}

Factors == {Pages(c) : c \in 0..MaxPages}

\* results of the layout search: one code per row, 70 raw bytes per code
Bests == {[shards_per_row |-> 1, data_bytes_per_shard |-> 70]}

\* the defaults of row_count and error_correction, with a page side of 201
\* modules
DefaultArgs == CreateArgs(3, EcLevel_Q, 201)

NoHeader == <<>>

InitRestore ==
    /\ layout = <<>>
    /\ rendered = <<>>
    /\ images = <<>>
    /\ finished = <<>>
    /\ printed = NothingPrinted
    /\ chunks = <<>>
    /\ previous_meta = <<>>
    /\ previous_identifier = <<>>
    /\ payloads = <<>>
    /\ result = ""
    /\ decoder_configured = FALSE
    /\ bytes_written = 0
    /\ oracle = <<>>

InitHeaderIdle ==
    /\ h_in = NoHeader
    /\ h_buf = <<>>
    /\ h_out = <<>>

\* one file is printed with MaxPages recovery pages beyond its data pages,
\* and restore is given chunks from the scan pool in any order
Init ==
    /\ pc = "create"
    /\ data_bytes \in {FileBytes(n, f) : n \in FileLengths, f \in FileFills}
    /\ commit \in {<<118, 49>>}
    /\ commit_r = commit
    /\ args = DefaultArgs
    /\ best \in Bests
    /\ recovery_factor \in {Pages(MaxPages)}
    /\ force = FALSE
    /\ out_file = <<>>
    /\ InitRestore
    /\ InitHeaderIdle

---------------------------------------------------------------------------
(* What the scanner may hand to restore *)

\* byte number pos of a buffer, changed
Tamper(buf, pos) == [buf EXCEPT ![pos] = (@ + 1) % GF_P]

PrintedChunks ==
    {printed.meta[i] : i \in 1..Len(printed.meta)}
        \cup {printed.payloads[i] : i \in 1..Len(printed.payloads)}

\* the first Payload chunk with one shard byte changed: the first byte, and
\* the byte at the place of the size trailer's low byte
TamperedPayloads ==
    LET c == printed.payloads[1] IN
    {Tamper(c, PayloadHeader_LENGTH + 1), Tamper(c, Len(c) - SIZE_OF_U64 + 1)}

\* the first Payload chunk under another Document Identifier
ForeignPayloads == {Tamper(printed.payloads[1], SIZE_OF_U16 + 1)}

\* the first Payload chunk with a shard one byte short
MisfitPayloads == {Take(printed.payloads[1], Len(printed.payloads[1]) - 1)}

\* the Meta chunk with one field changed: identifier, hash (last byte; first
\* byte), original_count, recovery_count, shard_bytes
MetaVariants ==
    LET c == printed.meta[1] IN
    {Tamper(c, SIZE_OF_U16 + 1),
     Tamper(c, SIZE_OF_U16 + IDENTIFIER_LENGTH + DIGEST_LENGTH_BYTES),
     Tamper(c, SIZE_OF_U16 + IDENTIFIER_LENGTH + 1),
     Tamper(c, SIZE_OF_U16 + IDENTIFIER_LENGTH + DIGEST_LENGTH_BYTES + 1),
     Tamper(c, SIZE_OF_U16 + IDENTIFIER_LENGTH + DIGEST_LENGTH_BYTES + SIZE_OF_U16 + 1),
     Tamper(c, SIZE_OF_U16 + IDENTIFIER_LENGTH + DIGEST_LENGTH_BYTES + 2 * SIZE_OF_U16 + 2)}

\* buffers too short for their header
ShortChunks ==
    {Take(printed.payloads[1], PayloadHeader_LENGTH - 1),
     Take(printed.meta[1], Len(printed.meta[1]) - 1)}

ScanPool ==
    PrintedChunks \cup TamperedPayloads \cup ForeignPayloads \cup MisfitPayloads
        \cup MetaVariants \cup ShortChunks

---------------------------------------------------------------------------
(* restore(args) *)

\* the next chunk of chunks.iter() goes through the loop body
Scan ==
    /\ pc = "scan"
    /\ Len(chunks) < MaxChunks
    /\ \E c \in ScanPool :
        LET st == restore_chunk(previous_meta, previous_identifier, payloads, c) IN
        /\ chunks' = Append(chunks, c)
        /\ previous_meta' = st.previous_meta
        /\ previous_identifier' = st.previous_identifier
        /\ payloads' = st.payloads
        /\ result' = st.err
        /\ pc' = IF st.err = "" THEN "scan" ELSE "done"
    /\ UNCHANGED <<createVars, layout, printed, images, finished, decoder_configured,
                   out_file, bytes_written, oracle, headerVars>>

\* chunks.iter() is exhausted: the metadata is looked for and write_output runs
Finish ==
    /\ pc = "scan"
    /\ pc' = "done"
    /\ LET w == restore_finish(previous_meta, payloads, force, out_file,
                             commit_r, oracle) IN
       /\ result' = w.result
       /\ decoder_configured' = w.decoder_configured
       /\ out_file' = w.out_file
       /\ bytes_written' = w.bytes_written
       /\ oracle' = w.oracle
    /\ UNCHANGED <<createVars, layout, printed, images, finished, chunks, previous_meta,
                   previous_identifier, payloads, headerVars>>

Next ==
    \/ Create
    \/ Scan
    \/ Finish

Spec == Init /\ [][Next]_vars

---------------------------------------------------------------------------
(* The round trip: restore reads every chunk create printed, page by page *)

\* file lengths around the shard boundaries of 64- and 128-byte shards
RoundTripLengths ==
    {0, 1, BLOCK_BYTES - SIZE_OF_U64, BLOCK_BYTES - SIZE_OF_U64 + 1,
     2 * BLOCK_BYTES - SIZE_OF_U64, 2 * BLOCK_BYTES - SIZE_OF_U64 + 1,
     4 * BLOCK_BYTES - SIZE_OF_U64}

RoundTripBests ==
    {[shards_per_row |-> r, data_bytes_per_shard |-> b] :
        r \in {1, 2},
        b \in {BLOCK_BYTES + PayloadHeader_LENGTH - 1,
               BLOCK_BYTES + PayloadHeader_LENGTH,
               2 * BLOCK_BYTES + PayloadHeader_LENGTH}}

RoundTripFactors == Factors \cup {Percentage(50), Percentage(100)}

InitRoundTrip ==
    /\ pc = "create"
    /\ data_bytes \in {FileBytes(n, f) : n \in RoundTripLengths, f \in FileFills}
    /\ commit \in Commits
    /\ commit_r = commit
    /\ args = DefaultArgs
    /\ best \in RoundTripBests
    /\ recovery_factor \in RoundTripFactors
    /\ force = FALSE
    /\ out_file = <<>>
    /\ InitRestore
    /\ InitHeaderIdle

\* the chunks of page number p (from 1): the metadata code, printed twice
\* in the banner, and the page's share of the Payload chunks
RECURSIVE PageOrder(_)
PageOrder(p) ==
    IF p = 0 THEN <<>>
    ELSE LET per == layout[1].shards_per_row * layout[1].shards_per_row IN
         PageOrder(p - 1) \o printed.meta \o printed.meta
             \o Slice(printed.payloads, (p - 1) * per + 1, p * per)

PrintedOrder == PageOrder(layout[1].recovery_page_count)

\* the next printed chunk goes through the loop body
ScanPrinted ==
    /\ pc = "scan"
    /\ Len(chunks) < Len(PrintedOrder)
    /\ LET c == PrintedOrder[Len(chunks) + 1]
           st == restore_chunk(previous_meta, previous_identifier, payloads, c)
       IN
       /\ chunks' = Append(chunks, c)
       /\ previous_meta' = st.previous_meta
       /\ previous_identifier' = st.previous_identifier
       /\ payloads' = st.payloads
       /\ result' = st.err
       /\ pc' = IF st.err = "" THEN "scan" ELSE "done"
    /\ UNCHANGED <<createVars, layout, printed, images, finished, decoder_configured,
                   out_file, bytes_written, oracle, headerVars>>

FinishPrinted ==
    /\ pc = "scan"
    /\ Len(chunks) = Len(PrintedOrder)
    /\ Finish

NextRoundTrip ==
    \/ Create
    \/ ScanPrinted
    \/ FinishPrinted

SpecRoundTrip == InitRoundTrip /\ [][NextRoundTrip]_vars

---------------------------------------------------------------------------
(* The header protocol on its own: write_to, then read_from *)

HeaderIdentifiers == {<<0, 0, 0, 0>>, <<1, 2, 3, 255>>}

Headers ==
    {HeaderMeta(MetaHeader(id, DigestBytes(d), oc, rc, sb)) :
        id \in HeaderIdentifiers, d \in {1, 255}, oc \in {0, 1, U16_MAX},
        rc \in {0, U16_MAX}, sb \in {0, BLOCK_BYTES, U64_HUGE - 1}}
    \cup
    {HeaderPayload(PayloadHeader(ix, id)) :
        ix \in {0, 1, 255, 256, U16_MAX - 1, U16_MAX}, id \in HeaderIdentifiers}

\* what follows the header in the buffer: nothing, or a shard
HeaderTails == {<<>>, [i \in 1..BLOCK_BYTES |-> i % 7], [i \in 1..(2 * BLOCK_BYTES) |-> i % 5]}

InitHeader ==
    /\ pc = "hwrite"
    /\ h_in \in Headers
    /\ h_buf = <<>>
    /\ h_out = <<>>
    /\ data_bytes = <<>>
    /\ commit = <<>>
    /\ commit_r = <<>>
    /\ args = DefaultArgs
    /\ best = [shards_per_row |-> 0, data_bytes_per_shard |-> 0]
    /\ recovery_factor = Pages(0)
    /\ force = FALSE
    /\ out_file = <<>>
    /\ InitRestore

\* header.write_to(&mut buf); buf.extend_from_slice(shard)
HeaderWrite ==
    /\ pc = "hwrite"
    /\ \E t \in HeaderTails : h_buf' = write_to(h_in) \o t
    /\ pc' = "hread"
    /\ UNCHANGED <<createVars, restoreVars, layout, printed, result, oracle, h_in, h_out>>

\* Header::read_from(&mut bytes)
HeaderRead ==
    /\ pc = "hread"
    /\ h_out' = <<read_from(h_buf)>>
    /\ pc' = "hdone"
    /\ UNCHANGED <<createVars, restoreVars, layout, printed, result, oracle, h_in, h_buf>>

NextHeader == HeaderWrite \/ HeaderRead

SpecHeader == InitHeader /\ [][NextHeader]_vars

---------------------------------------------------------------------------
(* Claims *)

SameHeader(a, b) ==
    /\ a.kind = b.kind
    /\ IF a.kind = "Meta" THEN a.meta = b.meta ELSE a.payload = b.payload

CreateSucceeded == printed # NothingPrinted

\* C1: restore, given every chunk create printed (same build tag, the
\* destination free), succeeds and leaves exactly the bytes of the input
\* file in the destination: no padding, no trailer.
C1_RoundTrip ==
    (pc = "done" /\ CreateSucceeded) =>
        /\ result = "ok"
        /\ out_file = <<data_bytes>>

\* C1 witness: a restored file of two or more data shards whose length + 8
\* is a multiple of the shard size
C1_Witness ==
    /\ pc = "done"
    /\ result = "ok"
    /\ out_file = <<data_bytes>>
    /\ layout[1].data_shard_count >= 2
    /\ (Len(data_bytes) + SIZE_OF_U64) % layout[1].data_bytes_per_shard = 0

\* C4 as claimed: read_from(write_to(h)) is h for every header, a Payload
\* header with the index 0xFFFF included.
C4_EveryHeaderRoundTrips ==
    pc = "hdone" => (h_out[1].ok /\ SameHeader(h_out[1].header[1], h_in))

\* C4: read_from(write_to(h)) is h, and leaves what follows the header in
\* the reader, for every Meta header and every Payload header with an index
\* in 0..0xFFFE; a Payload header with the index 0xFFFF is never read back
\* as a Payload header.
C4_HeaderRoundTrip ==
    pc = "hdone" =>
        IF h_in.kind = "Meta" \/ h_in.payload.index # U16_MAX
        THEN /\ h_out[1].ok
             /\ SameHeader(h_out[1].header[1], h_in)
             /\ h_out[1].rest = Drop(h_buf, Len(write_to(h_in)))
        ELSE ~(h_out[1].ok /\ h_out[1].header[1].kind = "Payload")

\* C4 witness: a Payload header with the index 0xFFFE read back before its shard
C4_Witness ==
    /\ pc = "hdone"
    /\ h_in.kind = "Payload"
    /\ h_in.payload.index = U16_MAX - 1
    /\ h_out[1].ok
    /\ SameHeader(h_out[1].header[1], h_in)
    /\ Len(h_out[1].rest) = BLOCK_BYTES

---------------------------------------------------------------------------
(* The input of restore, read without regard to order *)

ChunkSet == {chunks[i] : i \in 1..Len(chunks)}

\* how often the buffer c was scanned
Count(c) == Cardinality({i \in 1..Len(chunks) : chunks[i] = c})

IsMeta(c) == read_from(c).ok /\ read_from(c).header[1].kind = "Meta"
IsPayload(c) == read_from(c).ok /\ read_from(c).header[1].kind = "Payload"

MetaOf(c) == read_from(c).header[1].meta
IndexOf(c) == read_from(c).header[1].payload.index
IdentifierOf(c) == read_from(c).header[1].payload.identifier
ShardOf(c) == read_from(c).rest

InputMetas == {MetaOf(c) : c \in {x \in ChunkSet : IsMeta(x)}}
InputPayloads == {c \in ChunkSet : IsPayload(c)}
InputIdentifiers == {IdentifierOf(c) : c \in InputPayloads}

PrintedPayloads == {printed.payloads[i] : i \in 1..Len(printed.payloads)}

\* the input is the printed Meta chunk with printed Payload chunks, none twice
MetaWithDistinctPrintedPayloads ==
    /\ CreateSucceeded
    /\ ChunkSet \subseteq PrintedChunks
    /\ printed.meta[1] \in ChunkSet
    /\ \A c \in InputPayloads : Count(c) = 1

ScanErrors ==
    {"failed to fill whole buffer", "meta header mismatch",
     "meta does not match identifier", "payload does not match meta",
     "payload has incorrect identifier"}

\* C2: given the Meta chunk and printed Payload chunks of pairwise distinct
\* indexes, restore succeeds with the bytes of the input file when there
\* are at least original_count of them, and otherwise fails to decode for
\* lack of shards without creating the destination.
C2_Threshold ==
    (pc = "done" /\ MetaWithDistinctPrintedPayloads) =>
        IF Cardinality(InputPayloads) >= layout[1].data_shard_count
        THEN result = "ok" /\ out_file = <<data_bytes>>
        ELSE result = "failed to decode original data" /\ out_file = <<>>

\* C2 witness: exactly original_count = 2 of 3 Payload chunks, without the
\* first one, restore the file
C2_Witness ==
    /\ pc = "done"
    /\ MetaWithDistinctPrintedPayloads
    /\ layout[1].data_shard_count = 2
    /\ layout[1].recovery_shard_count = 3
    /\ Cardinality(InputPayloads) = 2
    /\ printed.payloads[1] \notin ChunkSet
    /\ result = "ok"
    /\ out_file = <<data_bytes>>

\* C3: whenever the bytes restore reconstructed, truncated and wrote differ
\* from the input file, restore ends with a checksum mismatch; it never
\* ends ok with content whose hash, taken with the build tag, is not the
\* hash of the Meta header.
C3_TamperDetected ==
    (pc = "done" /\ out_file # <<>>) =>
        /\ (out_file[1] # data_bytes => result = "checksum mismatch")
        /\ (result = "ok" =>
                SHA2_512(oracle, out_file[1], commit_r) = previous_meta[1].hash)

\* C3 witness: a changed shard byte made the reconstructed content differ,
\* under the printed Meta header, and restore reported the mismatch
C3_Witness ==
    /\ pc = "done"
    /\ result = "checksum mismatch"
    /\ previous_meta = <<read_from(printed.meta[1]).header[1].meta>>
    /\ out_file # <<>>
    /\ out_file[1] # data_bytes
    /\ Len(out_file[1]) = Len(data_bytes)

\* the input holds no Meta chunk, only Payload chunks of one identifier
OnlyConsistentPayloads ==
    /\ chunks # <<>>
    /\ \A c \in ChunkSet : IsPayload(c)
    /\ Cardinality(InputIdentifiers) = 1

\* C5: an input without a Meta chunk, of mutually consistent Payload
\* chunks, makes restore fail for the missing metadata, before the erasure
\* decoder is configured and before the destination is opened.
C5_MissingMetadata ==
    (pc = "done" /\ OnlyConsistentPayloads) =>
        /\ result = "could not locate any metadata chunks"
        /\ ~decoder_configured
        /\ out_file = <<>>

\* C5 witness: enough printed Payload chunks to decode, and no Meta chunk
C5_Witness ==
    /\ pc = "done"
    /\ OnlyConsistentPayloads
    /\ ChunkSet \subseteq PrintedPayloads
    /\ Cardinality(ChunkSet) >= layout[1].data_shard_count
    /\ result = "could not locate any metadata chunks"

\* C6: once a Meta header is accepted, any Meta chunk of the input that
\* differs from it in a field ends restore with a metadata mismatch, and
\* restore gets past its loop only if all Meta chunks are identical.
C6_MetaConsistency ==
    /\ (pc = "done" /\ previous_meta # <<>> /\ InputMetas # {previous_meta[1]})
            => result = "meta header mismatch"
    /\ (pc = "done" /\ result \notin ScanErrors) => Cardinality(InputMetas) <= 1

\* C6 witness: a Meta chunk, a Payload chunk, then a Meta chunk that differs
\* in its shard_bytes alone
C6_Witness ==
    /\ pc = "done"
    /\ result = "meta header mismatch"
    /\ Len(chunks) = 3
    /\ IsMeta(chunks[1])
    /\ IsPayload(chunks[2])
    /\ IsMeta(chunks[3])
    /\ MetaOf(chunks[3]) = [MetaOf(chunks[1]) EXCEPT
                               !.shard_bytes = MetaOf(chunks[3]).shard_bytes]
    /\ MetaOf(chunks[3]).shard_bytes # MetaOf(chunks[1]).shard_bytes

\* the validation loop of restore ran through every chunk without an error
LoopCompleted == pc = "done" /\ result \notin ScanErrors

\* C7: when the validation loop completes without error, every Payload
\* entry's Document Identifier equals the identifier field of the accepted
\* Meta header. (The loop compares it with the first bytes of the Meta
\* header's hash; the identifier field is compared with nothing.)
C7_IdentifierBinding ==
    (LoopCompleted /\ previous_meta # <<>>) =>
        \A c \in InputPayloads : IdentifierOf(c) = previous_meta[1].identifier

\* C8: the printed Meta chunk with printed Payload chunks, some of them
\* scanned more than once, restores as the same chunks scanned once each
\* do: with original_count distinct Payload chunks or more, restore succeeds
\* with the bytes of the input file.
C8_IdenticalDuplicatesTolerated ==
    (/\ pc = "done"
     /\ CreateSucceeded
     /\ ChunkSet \subseteq PrintedChunks
     /\ printed.meta[1] \in ChunkSet
     /\ Cardinality(InputPayloads) >= layout[1].data_shard_count)
        => result = "ok" /\ out_file = <<data_bytes>>

\* two Payload chunks of the input carry one index and different shard bytes
ConflictingDuplicates ==
    \E c, d \in InputPayloads : IndexOf(c) = IndexOf(d) /\ ShardOf(c) # ShardOf(d)

\* every Payload chunk of the input has an index and a shard length that the
\* decoder configured from the accepted Meta header takes
ShardsFit ==
    /\ previous_meta # <<>>
    /\ LET m == previous_meta[1] IN
       /\ RsNew(m.original_count, m.recovery_count, m.shard_bytes) = ""
       /\ \A c \in InputPayloads :
            IndexOf(c) < m.recovery_count /\ Len(ShardOf(c)) = m.shard_bytes

\* C9: an input with two Payload chunks of one index and different shard
\* bytes never restores: restore fails and the destination is not created,
\* and when the chunks are otherwise acceptable the failure is the
\* decoder's duplicate shard index error.
C9_ConflictReported ==
    (pc = "done" /\ ConflictingDuplicates) =>
        /\ result # "ok"
        /\ out_file = <<>>
        /\ (LoopCompleted /\ ShardsFit) => result = "duplicate recovery shard index"

\* C9 witness: the printed Meta chunk, a printed Payload chunk and the same
\* chunk with a shard byte changed, refused for the duplicate index
C9_Witness ==
    /\ pc = "done"
    /\ ConflictingDuplicates
    /\ printed.meta[1] \in ChunkSet
    /\ printed.payloads[1] \in ChunkSet
    /\ result = "duplicate recovery shard index"

\* The chunks agree with one another, whatever their order: each parses, the
\* Meta chunks are one header, the Payload chunks carry one identifier, and
\* that identifier begins the Meta header's hash. Chunks that do not agree
\* do not agree in any larger input either.
Consistent ==
    /\ \A c \in ChunkSet : read_from(c).ok
    /\ Cardinality(InputMetas) <= 1
    /\ Cardinality(InputIdentifiers) <= 1
    /\ \A m \in InputMetas : \A id \in InputIdentifiers : StartsWith(m.hash, id)

\* the shards of the input by index, when no index comes twice
InputShards ==
    [ix \in {IndexOf(c) : c \in InputPayloads} |->
        ShardOf(CHOOSE c \in InputPayloads : IndexOf(c) = ix)]

\* the bytes that decoding the input's shards under the Meta header m gives
DecodedContent(m) ==
    LET decoded == RsDecode(InputShards, m.original_count, m.shard_bytes)
        last_chunk == decoded[Len(decoded)]
        expected_size == ReadLE(Drop(last_chunk, Len(last_chunk) - SIZE_OF_U64))
    IN WriteLoop(decoded, 1, expected_size, 0, <<>>).content

\* The input restores, said of the chunks as a multiset: one Meta header, a
\* decoder for it, every Payload chunk scanned once with an index and a
\* length the decoder takes, original_count of them or more, and decoded
\* bytes whose digest is the Meta header's hash.
RestoresAsMultiset ==
    /\ Consistent
    /\ Cardinality(InputMetas) = 1
    /\ LET m == CHOOSE x \in InputMetas : TRUE IN
       /\ RsNew(m.original_count, m.recovery_count, m.shard_bytes) = ""
       /\ \A c \in InputPayloads :
            /\ IndexOf(c) < m.recovery_count
            /\ Len(ShardOf(c)) = m.shard_bytes
            /\ Count(c) = 1
            /\ \A d \in InputPayloads : IndexOf(d) = IndexOf(c) => d = c
       /\ Cardinality(InputPayloads) >= m.original_count
       /\ SHA2_512(oracle, DecodedContent(m), commit_r) = m.hash

\* C10: the outcome of restore depends on the multiset of chunks and not on
\* their order: the loop gets through the chunks exactly when they agree
\* with one another, restore succeeds exactly when they restore as a
\* multiset, and the bytes written on success are those the multiset decodes
\* to; in every other order the same input fails as well.
C10_OrderInsensitive ==
    /\ pc = "scan" => Consistent
    /\ (pc = "done" /\ result \in ScanErrors) => ~Consistent
    /\ LoopCompleted =>
        /\ Consistent
        /\ result = "ok" <=> RestoresAsMultiset
        /\ result = "ok" =>
             out_file = <<DecodedContent(CHOOSE x \in InputMetas : TRUE)>>

\* C10 witness: the Meta chunk scanned between two Payload chunks that are
\* both needed, restored
C10_Witness ==
    /\ pc = "done"
    /\ result = "ok"
    /\ Len(chunks) = 3
    /\ IsPayload(chunks[1])
    /\ IsMeta(chunks[2])
    /\ IsPayload(chunks[3])
    /\ previous_meta[1].original_count = 2
    /\ out_file = <<data_bytes>>

---------------------------------------------------------------------------
(* restore onto a destination that may exist *)

\* what the destination holds before restore, when it exists: bytes that no
\* input file of the model has
OldContent == <<255, 254, 253>>

OverwriteLengths == {0, 1, BLOCK_BYTES - SIZE_OF_U64 + 1, 2 * BLOCK_BYTES}

InitOverwrite ==
    /\ pc = "create"
    /\ data_bytes \in {FileBytes(n, f) : n \in OverwriteLengths, f \in FileFills}
    /\ commit \in Commits
    /\ commit_r = commit
    /\ args = DefaultArgs
    /\ best \in RoundTripBests
    /\ recovery_factor \in Factors
    /\ force \in BOOLEAN
    /\ out_file \in {<<>>, <<OldContent>>}
    /\ InitRestore
    /\ InitHeaderIdle

SpecOverwrite == InitOverwrite /\ [][NextRoundTrip]_vars

C12_VerifyBeforeWrite ==
    (pc = "done" /\ result = "checksum mismatch") => out_file = <<>>

---------------------------------------------------------------------------
(* restore from images: read_chunks, then the loop *)

\* An image is Option<the buffers of its QR codes>: None when image::open
\* or the scanner fails on it (the scanner fails when it finds no code).
Unreadable == <<>>

\* the image of page p: the metadata code, printed twice in the banner, and
\* the page's Payload chunks
PageImage(p) ==
    LET per == layout[1].shards_per_row * layout[1].shards_per_row IN
    <<printed.meta \o printed.meta
        \o Slice(printed.payloads, (p - 1) * per + 1, p * per)>>

PageImages == [p \in 1..layout[1].recovery_page_count |-> PageImage(p)]

\* the images restore may be given: every page; every page but one, with an
\* unreadable image in its place; every page and an unreadable image
ImageLists ==
    {PageImages, Append(PageImages, Unreadable)}
        \cup {[PageImages EXCEPT ![p] = Unreadable] : p \in DOMAIN PageImages}

RECURSIVE Flatten(_)
Flatten(imgs) ==
    IF imgs = <<>> THEN <<>> ELSE imgs[1][1] \o Flatten(Tail(imgs))

\* read_chunks(input_paths): Option<the chunks of all images, flattened>,
\* None when the ? on any one image fails and the collect returns its error
read_chunks(imgs) ==
    IF \E i \in DOMAIN imgs : imgs[i] = Unreadable THEN <<>>
    ELSE <<Flatten(imgs)>>

InitImages ==
    /\ pc = "create"
    /\ data_bytes \in {FileBytes(n, f) : n \in OverwriteLengths, f \in FileFills}
    /\ commit \in Commits
    /\ commit_r = commit
    /\ args = DefaultArgs
    /\ best \in RoundTripBests
    /\ recovery_factor \in RoundTripFactors
    /\ force = FALSE
    /\ out_file = <<>>
    /\ InitRestore
    /\ InitHeaderIdle

\* the caller names the images: args.input_path
TakeImages ==
    /\ pc = "scan"
    /\ images = <<>>
    /\ \E imgs \in ImageLists : images' = <<imgs>>
    /\ pc' = "read"
    /\ UNCHANGED <<createVars, layout, printed, finished, chunks, previous_meta,
                   previous_identifier, payloads, result, decoder_configured,
                   out_file, bytes_written, oracle, headerVars>>

\* let chunks = read_chunks(&args.input_path)?
ReadChunks ==
    /\ pc = "read"
    /\ IF read_chunks(images[1]) = <<>>
       THEN result' = "cannot read image" /\ pc' = "done"
       ELSE result' = "" /\ pc' = "scan"
    /\ UNCHANGED <<createVars, layout, printed, images, finished, chunks, previous_meta,
                   previous_identifier, payloads, decoder_configured,
                   out_file, bytes_written, oracle, headerVars>>

\* the next chunk of chunks.iter() goes through the loop body
ScanImages ==
    /\ pc = "scan"
    /\ images # <<>>
    /\ LET all == read_chunks(images[1])[1] IN
       /\ Len(chunks) < Len(all)
       /\ LET c == all[Len(chunks) + 1]
              st == restore_chunk(previous_meta, previous_identifier, payloads, c)
          IN
          /\ chunks' = Append(chunks, c)
          /\ previous_meta' = st.previous_meta
          /\ previous_identifier' = st.previous_identifier
          /\ payloads' = st.payloads
          /\ result' = st.err
          /\ pc' = IF st.err = "" THEN "scan" ELSE "done"
    /\ UNCHANGED <<createVars, layout, printed, images, finished, decoder_configured,
                   out_file, bytes_written, oracle, headerVars>>

FinishImages ==
    /\ pc = "scan"
    /\ images # <<>>
    /\ Len(chunks) = Len(read_chunks(images[1])[1])
    /\ Finish

NextImages ==
    \/ Create
    \/ TakeImages
    \/ ReadChunks
    \/ ScanImages
    \/ FinishImages

SpecImages == InitImages /\ [][NextImages]_vars

\* the distinct Payload chunks in the readable images
ReadablePayloads ==
    {c \in PrintedPayloads :
        \E i \in DOMAIN images[1] :
            /\ images[1][i] # Unreadable
            /\ \E j \in DOMAIN images[1][i][1] : images[1][i][1][j] = c}

\* C13: when an image cannot be read, restore goes on with the chunks of
\* the other images and succeeds if they hold the Meta chunk and
\* original_count distinct shards or more.
C13_ImageFailuresLocal ==
    (/\ pc = "done"
     /\ images # <<>>
     /\ \E i \in DOMAIN images[1] : images[1][i] # Unreadable
     /\ Cardinality(ReadablePayloads) >= layout[1].data_shard_count)
        => result = "ok" /\ out_file = <<data_bytes>>

---------------------------------------------------------------------------
(* layout::compute over page geometries *)

\* The arguments of the search: pages whose shorter side holds 28 to 132
\* modules, with a row_count under which no version beyond 10 fits
LayoutArgs ==
    {CreateArgs(r, e, m) :
        r \in 1..3, e \in EcLevel_L..EcLevel_H, m \in {28, 50, 54, 66, 68, 100, 132}}

FittingArgs ==
    {a \in LayoutArgs : \A v \in 11..QrVersions : ShardsPerRow(a, v) < a.row_count}

LayoutLengths ==
    {0, 1, BLOCK_BYTES - SIZE_OF_U64, BLOCK_BYTES - SIZE_OF_U64 + 1,
     4 * BLOCK_BYTES, 9 * BLOCK_BYTES}

LayoutFactors ==
    {Pages(0), Pages(1), Percentage(33), Percentage(50), Percentage(100)}

InitLayout ==
    /\ pc = "plan"
    /\ data_bytes \in {FileBytes(n, f) : n \in LayoutLengths, f \in FileFills}
    /\ commit \in {<<118, 49>>}
    /\ commit_r = commit
    /\ args \in FittingArgs
    /\ best = NoBest
    /\ recovery_factor \in LayoutFactors
    /\ force = FALSE
    /\ out_file = <<>>
    /\ InitRestore
    /\ InitHeaderIdle

\* create up to layout::compute(..)?: the digest, the search, the plan
Plan ==
    /\ pc = "plan"
    /\ LET digest == SHA2_512(oracle, data_bytes, commit)
           b == Search(args, 1, QrVersions, NoBest)
           lay == compute(b, recovery_factor, Len(data_bytes),
                          DocumentIdentifier(digest), digest)
       IN
       /\ oracle' = Hashed(oracle, data_bytes \o commit)
       /\ best' = b
       /\ layout' = lay
       /\ result' = IF lay = <<>> THEN "Could not find QR code configuration" ELSE "ok"
    /\ pc' = "planned"
    /\ UNCHANGED <<data_bytes, commit, commit_r, args, recovery_factor, force,
                   rendered, printed, restoreVars, headerVars>>

NextLayout == Plan

SpecLayout == InitLayout /\ [][NextLayout]_vars

\* the pair (version, level) meets args.row_count and args.error_correction
Admissible(v, ec_level) ==
    ShardsPerRow(args, v) >= args.row_count /\ ec_level >= args.error_correction

\* the usable bytes of one shard of the pair: a multiple of 64
UsablePerShard(v, ec_level) ==
    ((((max_len(v, ec_level) - 4 - (IF v <= 9 THEN 8 ELSE 16)) \div 8)
        - PayloadHeader_LENGTH) \div BLOCK_BYTES) * BLOCK_BYTES

UsablePerPage(v, ec_level) ==
    UsablePerShard(v, ec_level) * ShardsPerRow(args, v) * ShardsPerRow(args, v)

\* C14: when compute succeeds the pair it selected meets row_count and the
\* minimum error correction level, the plan carries that pair's codes per
\* row and usable bytes per shard, and no pair meeting the two constraints
\* has more usable bytes per page.
C14_LayoutOptimal ==
    (pc = "planned" /\ layout # <<>>) =>
        /\ Admissible(best.version, best.level)
        /\ layout[1].shards_per_row = ShardsPerRow(args, best.version)
        /\ layout[1].data_bytes_per_shard = UsablePerShard(best.version, best.level)
        /\ \A v \in 1..QrVersions : \A ec_level \in EcLevel_L..EcLevel_H :
              Admissible(v, ec_level) =>
                  UsablePerPage(v, ec_level) <= UsablePerPage(best.version, best.level)

\* C14 witness: a plan for a page on which a larger version fits and holds
\* no more, and a smaller one holds less
C14_Witness ==
    /\ pc = "planned"
    /\ layout # <<>>
    /\ \E v \in 1..QrVersions : v > best.version /\ Admissible(v, best.level)
    /\ \E v \in 1..QrVersions : \E ec_level \in EcLevel_L..EcLevel_H :
          /\ Admissible(v, ec_level)
          /\ UsablePerPage(v, ec_level) > 0
          /\ UsablePerPage(v, ec_level) < UsablePerPage(best.version, best.level)

\* some pair meeting the two constraints leaves a 64-byte block or more of
\* usable data in a shard
SomePairViable ==
    \E v \in 1..QrVersions : \E ec_level \in EcLevel_L..EcLevel_H :
        Admissible(v, ec_level) /\ UsablePerShard(v, ec_level) >= BLOCK_BYTES

\* C15: compute returns the planning error exactly when no pair meeting
\* row_count and the minimum error correction level leaves 64 usable bytes
\* in a shard after the Payload header.
C15_ErrorIffNothingViable ==
    pc = "planned" => (layout = <<>> <=> ~SomePairViable)

\* the recovery shards beyond the data shards that the policy asks for: c
\* pages, or p percent of the data shards rounded up to whole pages
PolicyExtra(factor, data_shard_count, shards_per_page) ==
    IF factor.kind = "Pages" THEN factor.n * shards_per_page
    ELSE ((factor.n * data_shard_count + 100 * shards_per_page - 1)
             \div (100 * shards_per_page)) * shards_per_page

\* C16: the plan's recovery_shard_count is data_shard_count plus the
\* policy's extra: c pages of shards_per_row squared shards each, or p
\* percent of data_shard_count rounded up to whole pages.
C16_RecoveryShardCount ==
    (pc = "planned" /\ layout # <<>>) =>
        layout[1].recovery_shard_count =
            layout[1].data_shard_count
                + PolicyExtra(recovery_factor, layout[1].data_shard_count,
                              layout[1].shards_per_row * layout[1].shards_per_row)

\* C17: the plan's data_shard_count is ceil((n + 8) / s) for the file
\* length n and the shard size s, so at least 1; data_page_count is
\* ceil(data_shard_count / shards_per_page); and the padded buffer of create
\* has data_shard_count * s bytes.
C17_DataShardCount ==
    (pc = "planned" /\ layout # <<>>) =>
        LET n == Len(data_bytes)
            s == layout[1].data_bytes_per_shard
            per == layout[1].shards_per_row * layout[1].shards_per_row
            count == layout[1].data_shard_count
            pages == layout[1].data_page_count
        IN /\ count >= 1
           /\ count * s >= n + 8
           /\ (count - 1) * s < n + 8
           /\ pages * per >= count
           /\ (pages - 1) * per < count
           /\ Len(PaddedBuffer(data_bytes, s)) = count * s

\* C17 witness: a file whose length + 8 is a multiple of the shard size,
\* planned with several shards to the page
C17_Witness ==
    /\ pc = "planned"
    /\ layout # <<>>
    /\ Len(data_bytes) > 0
    /\ (Len(data_bytes) + 8) % layout[1].data_bytes_per_shard = 0
    /\ layout[1].shards_per_row >= 2

---------------------------------------------------------------------------
(* Header::read_from on buffers cut short *)

CutHeaders ==
    {HeaderMeta(MetaHeader(<<1, 2, 3, 255>>, DigestBytes(255), 1, U16_MAX, BLOCK_BYTES)),
     HeaderPayload(PayloadHeader(0, <<1, 2, 3, 255>>)),
     HeaderPayload(PayloadHeader(U16_MAX - 1, <<255, 255, 255, 255>>))}

\* the first bytes of a shard after the header
CutTail == <<7, 255, 255>>

\* a chunk buffer scanned in part: its first n bytes, for every n
InitHeaderCut ==
    /\ pc = "hread"
    /\ h_in \in CutHeaders
    /\ h_buf \in {Take(write_to(h_in) \o CutTail, n) :
                    n \in 0..Len(write_to(h_in) \o CutTail)}
    /\ h_out = <<>>
    /\ data_bytes = <<>>
    /\ commit = <<>>
    /\ commit_r = <<>>
    /\ args = DefaultArgs
    /\ best = NoBest
    /\ recovery_factor = Pages(0)
    /\ force = FALSE
    /\ out_file = <<>>
    /\ InitRestore

NextHeaderCut == HeaderRead

SpecHeaderCut == InitHeaderCut /\ [][NextHeaderCut]_vars

\* the buffer starts with the index 0xFFFF
StartsWithSentinel(b) == Len(b) >= 2 /\ b[1] = 255 /\ b[2] = 255

\* the bytes read_from takes from a buffer: index and identifier, and for
\* the sentinel the hash, the two counts and the shard length as well
FixedLength(b) == IF StartsWithSentinel(b) THEN 2 + 4 + 64 + 2 + 2 + 8 ELSE 2 + 4

\* C18: read_from fails, returning no header, on a buffer of fewer than 2
\* bytes and on one shorter than the fixed length its leading index calls
\* for; on any other buffer it returns the header of that kind and leaves
\* exactly the bytes after the fixed length in the reader.
C18_ShortBuffersFail ==
    pc = "hdone" =>
        LET r == h_out[1] IN
        IF Len(h_buf) < 2 \/ Len(h_buf) < FixedLength(h_buf)
        THEN ~r.ok /\ r.header = <<>>
        ELSE /\ r.ok
             /\ r.header[1].kind = (IF StartsWithSentinel(h_buf) THEN "Meta" ELSE "Payload")
             /\ Len(r.rest) = Len(h_buf) - FixedLength(h_buf)
             /\ \A i \in 1..Len(r.rest) : r.rest[i] = h_buf[FixedLength(h_buf) + i]

\* C18 witness: a Meta chunk one byte short of its header, refused
C18_Witness ==
    /\ pc = "hdone"
    /\ StartsWithSentinel(h_buf)
    /\ Len(h_buf) = FixedLength(h_buf) - 1
    /\ ~h_out[1].ok

\* C19: in the padded buffer that create slices into data shards, the first
\* n bytes are the file, the last 8 bytes of the last data shard are n as a
\* little-endian 64-bit integer, every byte between is zero, and the
\* trailer starts at or after offset n.
C19_TrailerAndPadding ==
    (pc # "create" /\ layout # <<>>) =>
        LET l == layout[1]
            n == Len(data_bytes)
            buffer == PaddedBuffer(data_bytes, l.data_bytes_per_shard)
            last_shard == OriginalShards(buffer, l)[l.data_shard_count]
            t == Len(last_shard) - 8
        IN /\ Len(buffer) = l.data_shard_count * l.data_bytes_per_shard
           /\ n <= Len(buffer) - 8
           /\ \A i \in 1..n : buffer[i] = data_bytes[i]
           /\ \A i \in (n + 1)..(Len(buffer) - 8) : buffer[i] = 0
           /\ last_shard[t + 1] + 256 * last_shard[t + 2] = n
           /\ \A i \in 3..8 : last_shard[t + i] = 0

\* C19 witness: a printed file of several data shards, with padding between
\* its last byte and the trailer
C19_Witness ==
    /\ CreateSucceeded
    /\ layout[1].data_shard_count >= 2
    /\ Len(data_bytes) + 8 < layout[1].data_shard_count * layout[1].data_bytes_per_shard
    /\ Len(data_bytes) > 0

\* C20: in the chunks of one create run, the identifier read from every
\* Payload header and the one read from the Meta header are the first
\* IDENTIFIER_LENGTH bytes of the hash read from the Meta header, so they
\* are equal to each other.
C20_IdentifierIsHashPrefix ==
    CreateSucceeded =>
        LET m == read_from(printed.meta[1]) IN
        /\ m.ok
        /\ m.header[1].kind = "Meta"
        /\ m.header[1].meta.identifier = Take(m.header[1].meta.hash, IDENTIFIER_LENGTH)
        /\ \A i \in 1..Len(printed.payloads) :
              LET p == read_from(printed.payloads[i]) IN
              /\ p.ok
              /\ p.header[1].kind = "Payload"
              /\ p.header[1].payload.identifier = Take(m.header[1].meta.hash, IDENTIFIER_LENGTH)
              /\ p.header[1].payload.identifier = m.header[1].meta.identifier

\* C20 witness: a run that printed a metadata chunk and several payload
\* chunks, for a hash whose leading and trailing bytes differ
C20_Witness ==
    /\ CreateSucceeded
    /\ Len(printed.payloads) >= 2
    /\ LET hash == read_from(printed.meta[1]).header[1].meta.hash
       IN Take(hash, IDENTIFIER_LENGTH)
            # SubSeq(hash, Len(hash) - IDENTIFIER_LENGTH + 1, Len(hash))

---------------------------------------------------------------------------
(* read_chunks with its rayon workers, then the loop of restore *)

\* the collect of read_chunks taking the images as their workers return
Collected_completion_order(imgs, order) ==
    Flatten([k \in 1..Len(order) |-> imgs[order[k]]])

\* .par_iter().map(..).collect::<Result<Vec<_>>>() once every worker has
\* returned Ok: the chunk lists in the order of input_paths, whatever the
\* order the workers returned in
Collected(imgs, order) == Flatten(imgs)

\* the worker of input path i returns
DecodeImage(i) ==
    /\ pc = "read"
    /\ i \in DOMAIN images[1]
    /\ \A k \in DOMAIN finished : finished[k] # i
    /\ finished' = Append(finished, i)
    /\ UNCHANGED <<pc, createVars, layout, printed, images, chunks, previous_meta,
                   previous_identifier, payloads, result, decoder_configured,
                   out_file, bytes_written, oracle, headerVars>>

\* a worker returned Err: the collect gives the error up through the ? of
\* read_chunks and of restore, whatever the other workers have done
CollectFails ==
    /\ pc = "read"
    /\ \E k \in DOMAIN finished : images[1][finished[k]] = Unreadable
    /\ result' = "cannot read image"
    /\ pc' = "done"
    /\ UNCHANGED <<createVars, layout, printed, images, finished, chunks,
                   previous_meta, previous_identifier, payloads,
                   decoder_configured, out_file, bytes_written, oracle, headerVars>>

\* every worker returned Ok: read_chunks returns and the loop starts
CollectChunks ==
    /\ pc = "read"
    /\ Len(finished) = Len(images[1])
    /\ \A k \in DOMAIN finished : images[1][finished[k]] # Unreadable
    /\ pc' = "merge"
    /\ UNCHANGED <<createVars, layout, printed, images, finished, chunks,
                   previous_meta, previous_identifier, payloads, result,
                   decoder_configured, out_file, bytes_written, oracle, headerVars>>

\* the next chunk of chunks.iter() goes through the loop body
ScanCollected ==
    /\ pc = "merge"
    /\ LET all == Collected(images[1], finished) IN
       /\ Len(chunks) < Len(all)
       /\ LET c == all[Len(chunks) + 1]
              st == restore_chunk(previous_meta, previous_identifier, payloads, c)
          IN
          /\ chunks' = Append(chunks, c)
          /\ previous_meta' = st.previous_meta
          /\ previous_identifier' = st.previous_identifier
          /\ payloads' = st.payloads
          /\ result' = st.err
          /\ pc' = IF st.err = "" THEN "merge" ELSE "done"
    /\ UNCHANGED <<createVars, layout, printed, images, finished, decoder_configured,
                   out_file, bytes_written, oracle, headerVars>>

\* the loop is over: previous_meta.ok_or(..)?, then write_output
FinishCollected ==
    /\ pc = "merge"
    /\ Len(chunks) = Len(Collected(images[1], finished))
    /\ LET w == restore_finish(previous_meta, payloads, force, out_file, commit_r, oracle) IN
       /\ result' = w.result
       /\ decoder_configured' = w.decoder_configured
       /\ out_file' = w.out_file
       /\ bytes_written' = w.bytes_written
       /\ oracle' = w.oracle
    /\ pc' = "done"
    /\ UNCHANGED <<createVars, layout, printed, images, finished, chunks,
                   previous_meta, previous_identifier, payloads, headerVars>>

NextWorkers ==
    \/ Create
    \/ TakeImages
    \/ \E i \in (IF images = <<>> THEN {} ELSE DOMAIN images[1]) : DecodeImage(i)
    \/ CollectFails
    \/ CollectChunks
    \/ ScanCollected
    \/ FinishCollected

\* files of one and of several data shards, printed on two pages or more
WorkerLengths == {0, 2 * BLOCK_BYTES}

WorkerFactors == {Pages(1), Percentage(100)}

InitWorkers ==
    /\ pc = "create"
    /\ data_bytes \in {FileBytes(n, f) : n \in WorkerLengths, f \in FileFills}
    /\ commit \in {<<118, 49>>}
    /\ commit_r = commit
    /\ args = DefaultArgs
    /\ best \in RoundTripBests
    /\ recovery_factor \in WorkerFactors
    /\ force = FALSE
    /\ out_file = <<>>
    /\ InitRestore
    /\ InitHeaderIdle

SpecWorkers == InitWorkers /\ [][NextWorkers]_vars

\* the accumulators of restore after the first n chunks of a list, taken
\* one after the other
RECURSIVE SequentialLoop(_, _)
SequentialLoop(list, n) ==
    IF n = 0 THEN LoopState("", <<>>, <<>>, <<>>)
    ELSE LET st == SequentialLoop(list, n - 1) IN
         IF st.err # "" THEN st
         ELSE restore_chunk(st.previous_meta, st.previous_identifier,
                            st.payloads, list[n])

\* C21: restore parses no chunk and changes no accumulator before every
\* decode worker of read_chunks has returned, and from then on the
\* accumulators are those of the loop run over the chunk lists in the order
\* of the input paths, whatever the order the workers returned in.
C21_MergeAfterWorkers ==
    /\ pc = "read" =>
          /\ chunks = <<>>
          /\ previous_meta = <<>>
          /\ previous_identifier = <<>>
          /\ payloads = <<>>
    /\ (images # <<>> /\ chunks # <<>>) =>
          /\ Len(finished) = Len(images[1])
          /\ \A i \in DOMAIN images[1] : images[1][i] # Unreadable
          /\ chunks = Take(Flatten(images[1]), Len(chunks))
          /\ LET st == SequentialLoop(Flatten(images[1]), Len(chunks)) IN
             /\ previous_meta = st.previous_meta
             /\ previous_identifier = st.previous_identifier
             /\ payloads = st.payloads

\* C21 witness: a restore that ended well from several images whose workers
\* did not return in the order of the input paths
C21_Witness ==
    /\ pc = "done"
    /\ result = "ok"
    /\ images # <<>>
    /\ Len(finished) >= 2
    /\ finished[1] # 1
    /\ images[1][finished[1]] # images[1][1]

---------------------------------------------------------------------------
(* C22: ties of the layout search *)

\* the pair (v, ec_level) comes after the pair (v0, e0) in the order of the
\* two loops: versions ascending, the levels of one version H, Q, M, L
TriedAfter(v, ec_level, v0, e0) ==
    v > v0 \/ (v = v0 /\ ec_level < e0)

\* the levels of version v that meet args.error_correction and hold the
\* most bytes per page of that version
BestLevels(v) ==
    {e \in EcLevel_L..EcLevel_H :
        /\ e >= args.error_correction
        /\ \A f \in EcLevel_L..EcLevel_H :
              f >= args.error_correction => UsablePerPage(v, f) <= UsablePerPage(v, e)}

\* C22: of the pairs meeting the constraints that hold the most bytes per
\* page, the plan has the first one the loops try: the lowest version and,
\* in that version, the highest error correction level; the inner loop by
\* itself leaves the highest of the levels holding the most.
C22_FirstFoundWinsTies ==
    /\ (pc = "planned" /\ layout # <<>>) =>
          \A v \in 1..QrVersions : \A ec_level \in EcLevel_L..EcLevel_H :
              (/\ Admissible(v, ec_level)
               /\ UsablePerPage(v, ec_level) = best.data_bytes_per_page
               /\ <<v, ec_level>> # <<best.version, best.level>>)
                  => TriedAfter(v, ec_level, best.version, best.level)
    /\ pc = "planned" =>
          \A v \in 1..QrVersions :
              ShardsPerRow(args, v) >= args.row_count =>
                  LET after == TryVersion(args, v, NoBest) IN
                  after.data_bytes_per_page > 0 =>
                      /\ after.version = v
                      /\ after.level \in BestLevels(v)
                      /\ \A e \in BestLevels(v) : e <= after.level

\* C22 witness: a plan tied with a larger version, for arguments under
\* which two levels of one version hold the same, and the most of that
\* version
C22_Witness ==
    /\ pc = "planned"
    /\ layout # <<>>
    /\ \E v \in 1..QrVersions : \E ec_level \in EcLevel_L..EcLevel_H :
          /\ v > best.version
          /\ Admissible(v, ec_level)
          /\ UsablePerPage(v, ec_level) = best.data_bytes_per_page
    /\ \E v \in 1..QrVersions :
          /\ ShardsPerRow(args, v) >= args.row_count
          /\ Cardinality(BestLevels(v)) >= 2
          /\ \E e \in BestLevels(v) : UsablePerPage(v, e) > 0

---------------------------------------------------------------------------
(* C23: the shard and its code *)

\* the bytes a code of the pair holds in byte mode: the bits left by the
\* mode indicator and the character count, in whole bytes
ByteModeCapacity(v, ec_level) ==
    (max_len(v, ec_level) - 4 - (IF v <= 9 THEN 8 ELSE 16)) \div 8

\* C23: in every plan data_bytes_per_shard is a positive multiple of 64,
\* the code of the selected pair holds the Payload header and then some
\* (the subtraction of the header does not underflow), and a Payload chunk,
\* header and shard, is no longer than what that code holds in byte mode.
C23_ShardFitsSymbol ==
    (pc = "planned" /\ layout # <<>>) =>
        LET l == layout[1]
            capacity == ByteModeCapacity(best.version, best.level)
        IN /\ l.data_bytes_per_shard > 0
           /\ l.data_bytes_per_shard % BLOCK_BYTES = 0
           /\ capacity >= PayloadHeader_LENGTH
           /\ PayloadHeader_LENGTH + l.data_bytes_per_shard <= capacity
           /\ Len(PayloadChunk(l, 0, Zeros(l.data_bytes_per_shard))) <= capacity

\* C23 witness: a plan whose Payload chunks fill their code to the last
\* byte
C23_Witness ==
    /\ pc = "planned"
    /\ layout # <<>>
    /\ PayloadHeader_LENGTH + layout[1].data_bytes_per_shard
          = ByteModeCapacity(best.version, best.level)

---------------------------------------------------------------------------
(* create with its rayon render workers *)

\* the chunks numbered as their workers return
RenderedChunks_completion_index(l, recovery, order) ==
    [k \in 1..Len(order) |-> PayloadChunk(l, k - 1, recovery[order[k]])]

\* .par_iter().enumerate().map(..).collect::<Result<Vec<_>>>(): the chunk of
\* recovery shard i carries the index i of enumerate and stands at place i,
\* whatever the order the workers returned in
RenderedChunks(l, recovery, order) ==
    [i \in 1..Len(recovery) |-> PayloadChunk(l, i - 1, recovery[i])]

\* the recovery shards of the file under the plan l
RecoveryShards(l) ==
    RsEncode(OriginalShards(PaddedBuffer(data_bytes, l.data_bytes_per_shard), l),
             l.recovery_shard_count, l.data_bytes_per_shard)

\* create up to rs_encoder.encode(): the digest, the plan, the encoder
EncodeShards ==
    /\ pc = "create"
    /\ LET digest == SHA2_512(oracle, data_bytes, commit)
           lay == compute(best, recovery_factor, Len(data_bytes),
                          DocumentIdentifier(digest), digest)
       IN
       /\ oracle' = Hashed(oracle, data_bytes \o commit)
       /\ layout' = lay
       /\ IF lay = <<>>
          THEN result' = "Could not find QR code configuration" /\ pc' = "done"
          ELSE LET rs == RsNew(lay[1].data_shard_count, lay[1].recovery_shard_count,
                               lay[1].data_bytes_per_shard)
               IN IF rs # ""
                  THEN result' = rs /\ pc' = "done"
                  ELSE result' = "" /\ pc' = "render"
    /\ UNCHANGED <<createVars, printed, restoreVars, headerVars>>

\* the render worker of recovery shard number i (from 1) returns
RenderShard(i) ==
    /\ pc = "render"
    /\ i \in 1..layout[1].recovery_shard_count
    /\ \A k \in DOMAIN rendered : rendered[k] # i
    /\ rendered' = Append(rendered, i)
    /\ UNCHANGED <<pc, createArgs, layout, printed, result, oracle,
                   restoreVars, headerVars>>

\* render_page for page number page_num (from 0): the codes of the page,
\* svgs.chunks(shards_per_page), and the metadata code that render_banner
\* builds for the page and draws at both ends of the banner
render_page(l, chunks_of_svgs, page_num) ==
    LET per == l.shards_per_row * l.shards_per_row IN
    [codes |-> Slice(chunks_of_svgs, page_num * per + 1, (page_num + 1) * per),
     banner |-> <<MetaChunk(l), MetaChunk(l)>>]

\* every worker returned: the collect, then the pages with their banners
PrintPages ==
    /\ pc = "render"
    /\ Len(rendered) = layout[1].recovery_shard_count
    /\ LET l == layout[1] IN
       IF l.data_shard_count > U16_MAX \/ l.recovery_shard_count > U16_MAX
       THEN /\ result' = "cannot render chunks"
            /\ printed' = NothingPrinted
            /\ pc' = "done"
       ELSE /\ result' = "ok"
            /\ LET svgs == RenderedChunks(l, RecoveryShards(l), rendered) IN
               printed' = [meta |-> <<MetaChunk(l)>>,
                           payloads |-> svgs,
                           pages |-> [p \in 1..DivCeil(Len(svgs),
                                                        l.shards_per_row * l.shards_per_row)
                                         |-> render_page(l, svgs, p - 1)]]
            /\ pc' = "done"
    /\ UNCHANGED <<createVars, layout, oracle, restoreVars, headerVars>>

\* files of one, two and three 64-byte data shards
RenderLengths == {0, BLOCK_BYTES, 2 * BLOCK_BYTES}

\* no recovery page beyond the data pages, or so many that the shard count
\* does not fit 16 bits
RenderFactors == {Pages(0), Pages(U16_MAX)}

InitRender ==
    /\ pc = "create"
    /\ data_bytes \in {FileBytes(n, f) : n \in RenderLengths, f \in FileFills}
    /\ commit \in {<<118, 49>>}
    /\ commit_r = commit
    /\ args = DefaultArgs
    /\ best \in RoundTripBests
    /\ recovery_factor \in RenderFactors
    /\ force = FALSE
    /\ out_file = <<>>
    /\ InitRestore
    /\ InitHeaderIdle

NextRender ==
    \/ EncodeShards
    \/ \E i \in (IF layout = <<>> THEN {} ELSE 1..layout[1].recovery_shard_count) :
          RenderShard(i)
    \/ PrintPages

SpecRender == InitRender /\ [][NextRender]_vars

\* C24: a create that succeeds prints recovery_shard_count Payload chunks;
\* the chunk of the i-th recovery shard of the coder carries index i, in
\* whatever order the render workers return; the indices are distinct and
\* cover 0..recovery_shard_count - 1; none is 0xFFFF, so every Payload
\* chunk reads back as a Payload.
C24_DenseIndices ==
    (pc = "done" /\ result = "ok") =>
        LET l == layout[1]
            recovery == RecoveryShards(l)
            read == [k \in DOMAIN printed.payloads |-> read_from(printed.payloads[k])]
        IN /\ Len(printed.payloads) = l.recovery_shard_count
           /\ l.recovery_shard_count <= U16_MAX
           /\ \A k \in DOMAIN read :
                 /\ read[k].ok
                 /\ read[k].header[1].kind = "Payload"
                 /\ read[k].header[1].payload.index # U16_MAX
                 /\ read[k].header[1].payload.index \in 0..(l.recovery_shard_count - 1)
                 /\ read[k].rest = recovery[read[k].header[1].payload.index + 1]
           /\ \A i \in 0..(l.recovery_shard_count - 1) :
                 Cardinality({k \in DOMAIN read : read[k].header[1].payload.index = i}) = 1

\* C24 witness: several chunks printed after the worker of the last
\* recovery shard returned first
C24_Witness ==
    /\ pc = "done"
    /\ result = "ok"
    /\ Len(printed.payloads) >= 3
    /\ rendered[1] = Len(printed.payloads)
    /\ rendered[Len(rendered)] = 1

---------------------------------------------------------------------------
(* C25: the metadata code and the coder *)

\* the metadata codes on the pages of a create that succeeded
PrintedBanners ==
    {printed.pages[p].banner[k] : p \in DOMAIN printed.pages, k \in 1..2}

\* C25: in a create that succeeds the counts and the shard length of the
\* Meta header are those the coder was configured with and produced; two
\* metadata codes are drawn on every page, all with the same bytes; a create
\* whose shard counts do not fit 16 bits ends in an error and prints nothing.
C25_MetaMatchesCoder ==
    /\ (pc = "done" /\ result = "ok") =>
          LET l == layout[1]
              m == read_from(printed.meta[1])
          IN /\ m.ok /\ m.header[1].kind = "Meta"
             /\ m.header[1].meta.original_count = l.data_shard_count
             /\ m.header[1].meta.recovery_count = l.recovery_shard_count
             /\ m.header[1].meta.shard_bytes = l.data_bytes_per_shard
             /\ RsNew(m.header[1].meta.original_count, m.header[1].meta.recovery_count,
                      m.header[1].meta.shard_bytes) = ""
             /\ m.header[1].meta.original_count
                   = Len(OriginalShards(PaddedBuffer(data_bytes, l.data_bytes_per_shard), l))
             /\ m.header[1].meta.recovery_count = Len(RecoveryShards(l))
             /\ \A i \in DOMAIN printed.payloads :
                   Len(read_from(printed.payloads[i]).rest) = m.header[1].meta.shard_bytes
             /\ Len(printed.pages) = l.recovery_page_count
             /\ PrintedBanners = {printed.meta[1]}
    /\ (pc = "done" /\ layout # <<>>
          /\ (layout[1].data_shard_count > U16_MAX
                \/ layout[1].recovery_shard_count > U16_MAX)) =>
          result # "ok" /\ printed = NothingPrinted

\* C25 witness: a create that printed several pages for a file of several
\* data shards
C25_Witness ==
    /\ pc = "done"
    /\ result = "ok"
    /\ Len(printed.pages) >= 2
    /\ Cardinality(PrintedBanners) = 1
    /\ layout[1].data_shard_count >= 2

---------------------------------------------------------------------------
(* C26: the accumulators of the loop of restore *)

\* the chunks the loop went through without an error: all of them, but for
\* the last when it raised the error that ended the loop
AcceptedChunks ==
    IF result \in ScanErrors THEN Take(chunks, Len(chunks) - 1) ELSE chunks

AcceptedIdentifiers ==
    {IdentifierOf(AcceptedChunks[i]) :
        i \in {k \in 1..Len(AcceptedChunks) : IsPayload(AcceptedChunks[k])}}

\* the Payload chunks gone through carry one identifier, the remembered one
\* if one is remembered, the first bytes of the hash of the accepted Meta
\* header if one is accepted
OneIdentifier ==
    /\ Cardinality(AcceptedIdentifiers) <= 1
    /\ previous_identifier # <<>> => AcceptedIdentifiers = {previous_identifier[1]}
    /\ previous_meta # <<>> =>
          AcceptedIdentifiers \subseteq {Take(previous_meta[1].hash, IDENTIFIER_LENGTH)}

\* C26: in restore the accepted Meta header, once set, is never replaced or
\* changed; the remembered first identifier, once set, never changes; the
\* Payload chunks accepted so far all carry one identifier, which is the
\* first IDENTIFIER_LENGTH bytes of the hash of the accepted Meta header
\* when there is one.
C26_AccumulatorInvariant ==
    /\ [][/\ previous_meta # <<>> => previous_meta' = previous_meta
          /\ previous_identifier # <<>> => previous_identifier' = previous_identifier]_vars
    /\ [](pc # "create" => OneIdentifier)

\* C26 witness: two Payload chunks, then the Meta chunk, all accepted
C26_Witness ==
    /\ pc = "scan"
    /\ Len(chunks) = 3
    /\ IsPayload(chunks[1]) /\ IsPayload(chunks[2]) /\ IsMeta(chunks[3])
    /\ previous_meta # <<>>
    /\ previous_identifier # <<>>
    /\ Len(payloads) = 2

---------------------------------------------------------------------------
(* C27: the byte count of the summary *)

\* C27: when restore succeeds, the count of its summary line,
\* "{bytes_written} bytes written", is the number of bytes written to the
\* destination and the length stored in the size trailer. (The count leaves
\* out the bytes cut from the last chunk written: write_output breaks out
\* of its loop there without adding them.)
C27_ReportedByteCount ==
    (pc = "done" /\ result = "ok") =>
        /\ bytes_written = Len(out_file[1])
        /\ bytes_written = Len(data_bytes)

---------------------------------------------------------------------------
(* create and restore run by builds of the same and of different tags *)

TagLengths == {0, 1, BLOCK_BYTES - SIZE_OF_U64 + 1}

InitTag ==
    /\ pc = "create"
    /\ data_bytes \in {FileBytes(n, f) : n \in TagLengths, f \in FileFills}
    /\ commit \in Commits
    /\ commit_r \in Commits
    /\ args = DefaultArgs
    /\ best \in RoundTripBests
    /\ recovery_factor \in Factors
    /\ force = FALSE
    /\ out_file = <<>>
    /\ InitRestore
    /\ InitHeaderIdle

SpecTag == InitTag /\ [][NextRoundTrip]_vars

\* C28: the build tag enters the hash on both sides and nothing else:
\* restore of every printed chunk ends in the checksum mismatch when its
\* tag is not the tag of create, and passes the hash check when it is; the
\* printed chunks are a header and, for a Payload, a shard of the planned
\* length, with no byte left for a tag.
C28_TagBoundIntoHash ==
    /\ (pc = "done" /\ CreateSucceeded) =>
          IF commit_r = commit THEN result = "ok" ELSE result = "checksum mismatch"
    /\ CreateSucceeded =>
          /\ read_from(printed.meta[1]).ok
          /\ read_from(printed.meta[1]).rest = <<>>
          /\ read_from(printed.meta[1]).header[1].meta.hash
                = DigestBytes(HashIndex(<<>>, data_bytes \o commit))
          /\ \A i \in DOMAIN printed.payloads :
                /\ read_from(printed.payloads[i]).ok
                /\ Len(read_from(printed.payloads[i]).rest)
                      = layout[1].data_bytes_per_shard

\* C28 witness: a file printed by one build and restored by another, every
\* chunk scanned
C28_Witness ==
    /\ pc = "done"
    /\ CreateSucceeded
    /\ commit_r # commit
    /\ Len(chunks) = Len(PrintedOrder)
    /\ Len(data_bytes) > 0
    /\ result = "checksum mismatch"

=============================================================================
